---- MODULE Spec2Model ----
(***************************************************************************)
(* Verification model of k8s-cloudkms-plugin: the KMS v2 protocol handler  *)
(* (Status / Encrypt / Decrypt with the last-known key id), in the three   *)
(* revisions of it found in the sources, and the healthz HTTP handler.     *)
(*                                                                         *)
(* Strings are sequences of tokens: a token is a run of characters that    *)
(* contains neither "/" nor ":", or one of the separators "/" and ":".     *)
(* Byte strings are sequences of integers 0..255.  Base64 text is a        *)
(* sequence of alphabet indices 0..63, with 64 for the padding "=" and 65  *)
(* for a character outside the alphabet.                                   *)
(***************************************************************************)
EXTENDS Integers, Sequences, FiniteSets, TLC

VARIABLES revision, keyURI, keySuffix, lastKeyID, primary, calls, kept, probes, proc

vars == <<revision, keyURI, keySuffix, lastKeyID, primary, calls, kept, probes, proc>>

pluginVars == <<revision, keyURI, keySuffix, lastKeyID, primary, calls, kept, proc>>

handlerVars == <<revision, keyURI, keySuffix, lastKeyID, primary, calls, kept, probes>>

(***************************************************************************)
(* Bounds of the model.                                                    *)
(***************************************************************************)
NumCalls == 2
FirstVersion == 9
MaxRotations == 1
MaxPlainLen == 2
NumProbes == 2
MaxTailLen == 2

Calls == 1..NumCalls
Versions == FirstVersion..(FirstVersion + MaxRotations)
Probes == 1..NumProbes

(***************************************************************************)
(* The revisions of the v2 plugin.                                         *)
(*   "locked"   field lastKeyID behind lastKeyIDLock, setKeyID/keyID       *)
(*   "global"   package variable lastKeyId, unsynchronised, getKeyId       *)
(*   "nosuffix" package variable lastKeyVersion, unsynchronised, no suffix *)
(***************************************************************************)
Revisions == {"locked", "global", "nosuffix"}

Min(S) == CHOOSE x \in S : \A y \in S : x <= y

(***************************************************************************)
(* Resource names.                                                         *)
(***************************************************************************)
keyName == <<"projects", "/", "my-project", "/", "locations", "/", "us-east1", "/",
             "keyRings", "/", "my-key-ring", "/", "cryptoKeys", "/", "my-key">>

otherKeyName == <<"projects", "/", "my-project", "/", "locations", "/", "us-east1", "/",
                  "keyRings", "/", "my-key-ring", "/", "cryptoKeys", "/", "old-key">>

\* A version number in decimal, one token per digit.
Digit(d) == <<"0", "1", "2", "3", "4", "5", "6", "7", "8", "9">>[d + 1]

Decimal(n) == IF n < 10 THEN <<Digit(n)>> ELSE <<Digit(n \div 10), Digit(n % 10)>>

keyVersionName(key, n) == key \o <<"/", "cryptoKeyVersions", "/">> \o Decimal(n)

Suffixes == {<<>>, <<"test">>}

(***************************************************************************)
(* regexp projects\/[^/]+\/locations\/[^/]+\/keyRings\/[^/]+\/cryptoKeys\/ *)
(* followed by [^/:]+ (keyResourceRegEx) or [^/]+ (compRegEx), and         *)
(* FindString: the leftmost match, each class repetition greedy.           *)
(***************************************************************************)
RECURSIVE RunEnd(_, _, _)
RunEnd(s, i, stop) ==
  IF i > Len(s) \/ s[i] \in stop THEN i - 1 ELSE RunEnd(s, i + 1, stop)

Lit(s, i, tok) == i <= Len(s) /\ s[i] = tok

\* End of the segment "<word>/<run of [^/]+>/" starting at i, or 0.
SegEnd(s, i, word) ==
  IF ~(Lit(s, i, word) /\ Lit(s, i + 1, "/")) THEN 0
  ELSE LET e == RunEnd(s, i + 2, {"/"})
       IN  IF e >= i + 2 /\ Lit(s, e + 1, "/") THEN e + 1 ELSE 0

\* Last index of the match starting at i, or 0 when there is none.
MatchEnd(s, i, lastStop) ==
  LET a == SegEnd(s, i, "projects")
      b == IF a = 0 THEN 0 ELSE SegEnd(s, a + 1, "locations")
      c == IF b = 0 THEN 0 ELSE SegEnd(s, b + 1, "keyRings")
  IN  IF c = 0 \/ ~(Lit(s, c + 1, "cryptoKeys") /\ Lit(s, c + 2, "/")) THEN 0
      ELSE LET e == RunEnd(s, c + 3, lastStop)
           IN  IF e >= c + 3 THEN e ELSE 0

FindString(s, lastStop) ==
  LET starts == {i \in 1..Len(s) : MatchEnd(s, i, lastStop) > 0}
  IN  IF starts = {} THEN <<>>
      ELSE SubSeq(s, Min(starts), MatchEnd(s, Min(starts), lastStop))

keyResourceRegExStop == {"/", ":"}
compRegExStop == {"/"}

\* extractKeyName matching with the last class of compRegEx.
extractKeyNameKeepsSuffix(keyVersionId) == FindString(keyVersionId, compRegExStop)

extractKeyName(keyVersionId) == FindString(keyVersionId, keyResourceRegExStop)

extractKeyVersion(keyVersionId) == FindString(keyVersionId, compRegExStop)

(***************************************************************************)
(* encoding/base64 StdEncoding.                                            *)
(***************************************************************************)
RECURSIVE EncodeToString(_)
EncodeToString(b) ==
  IF Len(b) = 0 THEN <<>>
  ELSE IF Len(b) = 1 THEN <<b[1] \div 4, (b[1] % 4) * 16, 64, 64>>
  ELSE IF Len(b) = 2 THEN
         <<b[1] \div 4, (b[1] % 4) * 16 + b[2] \div 16, (b[2] % 16) * 4, 64>>
  ELSE <<b[1] \div 4, (b[1] % 4) * 16 + b[2] \div 16,
         (b[2] % 16) * 4 + b[3] \div 64, b[3] % 64>>
       \o EncodeToString(SubSeq(b, 4, Len(b)))

\* The number of trailing "=" of a text of full quanta, 3 when it is malformed.
Padding(t) ==
  LET n == Len(t)
      sym(i) == t[i] \in 0..63
  IN  IF n = 0 THEN 0
      ELSE IF n % 4 # 0 \/ \E i \in 1..(n - 2) : ~sym(i) THEN 3
      ELSE IF sym(n - 1) /\ sym(n) THEN 0
      ELSE IF sym(n - 1) /\ t[n] = 64 THEN 1
      ELSE IF t[n - 1] = 64 /\ t[n] = 64 THEN 2
      ELSE 3

WellFormed(t) == Padding(t) < 3

RECURSIVE DecodeQuanta(_)
DecodeQuanta(t) ==
  IF Len(t) = 0 THEN <<>>
  ELSE LET v(i) == IF t[i] = 64 THEN 0 ELSE t[i]
       IN  <<v(1) * 4 + v(2) \div 16, (v(2) % 16) * 16 + v(3) \div 4, (v(3) % 4) * 64 + v(4)>>
           \o DecodeQuanta(SubSeq(t, 5, Len(t)))

\* DecodeString of a well-formed text.
DecodeString(t) ==
  LET full == DecodeQuanta(t) IN SubSeq(full, 1, Len(full) - Padding(t))

(***************************************************************************)
(* The Cloud KMS backend, as the plugin sees it through keyService: it     *)
(* serves the hosted CryptoKeys by their resource name only, seals with    *)
(* the primary version and names that version in the response.  A          *)
(* ciphertext is the header byte 16 * key + version followed by the        *)
(* plaintext bytes.                                                        *)
(***************************************************************************)
HostedKeys == {keyName, otherKeyName}

KeyTag(name) == IF name = keyName THEN 1 ELSE 2

BackendEncryptAccepts(name, plaintext64) ==
  name \in HostedKeys /\ WellFormed(plaintext64)

BackendEncrypt(name, plaintext64, version) ==
  [Name |-> keyVersionName(name, version),
   Ciphertext |-> EncodeToString(<<16 * KeyTag(name) + version>> \o DecodeString(plaintext64))]

BackendDecryptAccepts(name, ciphertext64, newest) ==
  /\ name \in HostedKeys
  /\ WellFormed(ciphertext64)
  /\ LET blob == DecodeString(ciphertext64)
     IN  /\ Len(blob) >= 1
         /\ blob[1] \div 16 = KeyTag(name)
         /\ blob[1] % 16 \in FirstVersion..newest

BackendDecrypt(name, ciphertext64) ==
  [Plaintext |-> EncodeToString(Tail(DecodeString(ciphertext64)))]

\* A response body that is not base64.
malformed64 == <<65, 65, 65, 65>>

(***************************************************************************)
(* v2 plugin constants.                                                    *)
(***************************************************************************)
ok == "ok"
keyNotReachable == "Cloud KMS key is not reachable"
ping == EncodeToString(<<112, 105, 110, 103>>)

(***************************************************************************)
(* The last-known key id is a Go string: a data word and a length word.    *)
(* Under lastKeyIDLock both words change together; the package variables   *)
(* lastKeyId and lastKeyVersion are stored and loaded without              *)
(* synchronisation, one word at a time.                                    *)
(***************************************************************************)
Str(s) == [data |-> s, len |-> Len(s)]

\* The text a string header denotes; bytes read past the data are unknown.
StrOf(h) ==
  IF h.len <= Len(h.data) THEN SubSeq(h.data, 1, h.len)
  ELSE h.data \o [i \in 1..(h.len - Len(h.data)) |-> "?"]

getKeyId(keyVersion, suffix) ==
  IF suffix = <<>> THEN keyVersion ELSE keyVersion \o <<":">> \o suffix

\* The identifier a revision tracks for a backend-returned name.
Tracked(name) == IF revision = "nosuffix" THEN name ELSE getKeyId(name, keySuffix)

(***************************************************************************)
(* gRPC calls in flight: one record per handler goroutine.                 *)
(*   op        the method                                                  *)
(*   pc        "idle", "backend" (before keyService...Do()), "store"       *)
(*             (before the key id is stored), "storeData" / "storeLen"     *)
(*             (the named word still to be stored), "load" (before the     *)
(*             package variable is read back), "done" (returned)           *)
(*   plain, ctext, keyId     the request                                   *)
(*   name      resp.Name;  resource  the name passed to the backend        *)
(*   err, respKeyId, healthz, out    what the handler returns              *)
(*   requests  the backend requests (...Do()) this invocation has issued   *)
(*   expired   the deadline of the caller's ctx has passed, or the caller  *)
(*             has cancelled it                                            *)
(*   reply     what the last of them returned: "none", "error" (err #      *)
(*             nil), "malformed" (a payload that is not base64) or "ok"    *)
(*   holds     what the goroutine holds of lastKeyIDLock: "none", "r" (the *)
(*             read lock) or "w" (the write lock); SpecLock follows it     *)
(***************************************************************************)
IdleCall ==
  [op |-> "none", pc |-> "idle", plain |-> <<>>, ctext |-> <<>>, keyId |-> <<>>,
   name |-> <<>>, resource |-> <<>>, err |-> FALSE, respKeyId |-> <<>>,
   healthz |-> "", out |-> <<>>, requests |-> 0, reply |-> "none",
   expired |-> FALSE, holds |-> "none"]

NoneKept == [has |-> FALSE, plain |-> <<>>, cipher |-> <<>>, keyId |-> <<>>]

\* The v1beta1 plugin of plugin/plugin.go calls ...Do() on the backend request;
\* the v2 revisions call ...Context(ctx).Do(), which fails once ctx is done.
UsesContext == revision # "v1beta1"

CtxAllowsAnswer(c) == ~(UsesContext /\ calls[c].expired)

Goto(c, label) == calls' = [calls EXCEPT ![c].pc = label]

\* NewPlugin leaving the tracker at the zero value of a string.
NewPluginUnset(rev, uri, suffix) ==
  /\ revision = rev
  /\ keyURI = uri
  /\ keySuffix = suffix
  /\ lastKeyID = Str(<<>>)

\* NewPlugin: p.setKeyID(keyURI) / lastKeyId = getKeyId(keyURI, keySuffix) /
\* lastKeyVersion = keyURI.  The v1beta1 plugin tracks no key id: there
\* lastKeyID keeps this value for ever.
NewPlugin(rev, uri, suffix) ==
  /\ revision = rev
  /\ keyURI = uri
  /\ keySuffix = suffix
  /\ lastKeyID = Str(IF rev = "nosuffix" THEN uri ELSE getKeyId(uri, suffix))

\* keyID(): the tracked string, read under the read lock.
keyID == StrOf(lastKeyID)

\* setKeyID(name): decorate, then store both words under the write lock.
setKeyID(name) == lastKeyID' = Str(getKeyId(name, keySuffix))

\* Status, up to the backend call.  The locked revision reads keyID() into
\* the response first.
StatusBegin(c) ==
  /\ revision \in Revisions
  /\ calls[c].pc = "idle"
  /\ calls' = [calls EXCEPT ![c] =
       [IdleCall EXCEPT !.op = "Status", !.pc = "backend", !.healthz = ok,
                        !.resource = keyURI,
                        !.respKeyId = IF revision = "locked" THEN keyID ELSE <<>>]]
  /\ UNCHANGED <<revision, keyURI, keySuffix, lastKeyID, primary, kept, probes, proc>>

\* StatusProbeFails building a fresh response that carries no KeyId.
StatusProbeFailsBlank(c) ==
  /\ calls[c].op = "Status" /\ calls[c].pc = "backend"
  /\ calls' = [calls EXCEPT ![c].healthz = keyNotReachable, ![c].respKeyId = <<>>,
                            ![c].requests = @ + 1, ![c].reply = "error",
                            ![c].pc = "done"]
  /\ UNCHANGED <<revision, keyURI, keySuffix, lastKeyID, primary, kept, probes, proc>>

\* Status: the probe encrypt of "ping" fails.
StatusProbeFails(c) ==
  /\ calls[c].op = "Status" /\ calls[c].pc = "backend"
  /\ calls' = [calls EXCEPT ![c].healthz = keyNotReachable,
                            ![c].respKeyId = IF revision = "locked" THEN @ ELSE StrOf(lastKeyID),
                            ![c].requests = @ + 1, ![c].reply = "error",
                            ![c].pc = "done"]
  /\ UNCHANGED <<revision, keyURI, keySuffix, lastKeyID, primary, kept, probes, proc>>

\* Status: the probe encrypt succeeds and names the primary version.
StatusProbeSucceeds(c) ==
  /\ calls[c].op = "Status" /\ calls[c].pc = "backend"
  /\ CtxAllowsAnswer(c)
  /\ BackendEncryptAccepts(keyURI, ping)
  /\ calls' = [calls EXCEPT ![c].name = BackendEncrypt(keyURI, ping, primary).Name,
                            ![c].requests = @ + 1, ![c].reply = "ok",
                            ![c].pc = "store"]
  /\ UNCHANGED <<revision, keyURI, keySuffix, lastKeyID, primary, kept, probes, proc>>

EncryptBegin(c, plaintext) ==
  /\ calls[c].pc = "idle"
  /\ calls' = [calls EXCEPT ![c] =
       [IdleCall EXCEPT !.op = "Encrypt", !.pc = "backend", !.plain = plaintext,
                        !.resource = keyURI]]
  /\ UNCHANGED <<revision, keyURI, keySuffix, lastKeyID, primary, kept, probes, proc>>

\* Encrypt: the backend call returns an error.
EncryptBackendFails(c) ==
  /\ calls[c].op = "Encrypt" /\ calls[c].pc = "backend"
  /\ calls' = [calls EXCEPT ![c].err = TRUE, ![c].pc = "done",
                            ![c].requests = @ + 1, ![c].reply = "error"]
  /\ UNCHANGED <<revision, keyURI, keySuffix, lastKeyID, primary, kept, probes, proc>>

\* EncryptBackendAnswers storing the key id before it decodes the ciphertext.
EncryptBackendAnswersStoresFirst(c, garbled) ==
  /\ calls[c].op = "Encrypt" /\ calls[c].pc = "backend"
  /\ CtxAllowsAnswer(c)
  /\ LET request64 == EncodeToString(calls[c].plain)
         answer == BackendEncrypt(keyURI, request64, primary)
         ciphertext64 == IF garbled THEN malformed64 ELSE answer.Ciphertext
     IN  /\ BackendEncryptAccepts(keyURI, request64)
         /\ IF WellFormed(ciphertext64)
            THEN calls' = [calls EXCEPT ![c].name = answer.Name,
                                        ![c].out = DecodeString(ciphertext64),
                                        ![c].requests = @ + 1, ![c].reply = "ok",
                                        ![c].pc = IF revision = "v1beta1" THEN "done"
                                                  ELSE "store"]
            ELSE calls' = [calls EXCEPT ![c].name = answer.Name,
                                        ![c].err = TRUE, ![c].pc = "store",
                                        ![c].requests = @ + 1, ![c].reply = "malformed"]
  /\ UNCHANGED <<revision, keyURI, keySuffix, lastKeyID, primary, kept, probes, proc>>

\* Encrypt: the backend answers; the ciphertext is decoded from base64.
EncryptBackendAnswers(c, garbled) ==
  /\ calls[c].op = "Encrypt" /\ calls[c].pc = "backend"
  /\ CtxAllowsAnswer(c)
  /\ LET request64 == EncodeToString(calls[c].plain)
         answer == BackendEncrypt(keyURI, request64, primary)
         ciphertext64 == IF garbled THEN malformed64 ELSE answer.Ciphertext
     IN  /\ BackendEncryptAccepts(keyURI, request64)
         /\ IF WellFormed(ciphertext64)
            THEN calls' = [calls EXCEPT ![c].name = answer.Name,
                                        ![c].out = DecodeString(ciphertext64),
                                        ![c].requests = @ + 1, ![c].reply = "ok",
                                        ![c].pc = IF revision = "v1beta1" THEN "done"
                                                  ELSE "store"]
            ELSE calls' = [calls EXCEPT ![c].err = TRUE, ![c].pc = "done",
                                        ![c].requests = @ + 1, ![c].reply = "malformed"]
  /\ UNCHANGED <<revision, keyURI, keySuffix, lastKeyID, primary, kept, probes, proc>>

\* Locked revision: g.setKeyID(resp.Name); Encrypt returns its result,
\* Status returns the key id it read before the probe.
StoreLocked(c) ==
  /\ revision = "locked"
  /\ calls[c].pc = "store"
  /\ setKeyID(calls[c].name)
  /\ calls' = [calls EXCEPT ![c].pc = "done",
                            ![c].respKeyId = IF calls[c].op = "Encrypt"
                                             THEN getKeyId(calls[c].name, keySuffix) ELSE @]
  /\ UNCHANGED <<revision, keyURI, keySuffix, primary, kept, probes, proc>>

\* After both words of the package variable are stored: the global revision
\* reads the variable back for the response, the nosuffix one uses resp.Name.
AfterStore(c) ==
  IF revision = "global" THEN [calls[c] EXCEPT !.pc = "load"]
  ELSE [calls[c] EXCEPT !.pc = "done", !.respKeyId = calls[c].name]

\* Unsynchronised store of the package variable, first word.
StoreFirstWord(c, word) ==
  /\ revision # "locked"
  /\ calls[c].pc = "store"
  /\ IF word = "data"
     THEN /\ lastKeyID' = [lastKeyID EXCEPT !.data = Tracked(calls[c].name)]
          /\ Goto(c, "storeLen")
     ELSE /\ lastKeyID' = [lastKeyID EXCEPT !.len = Len(Tracked(calls[c].name))]
          /\ Goto(c, "storeData")
  /\ UNCHANGED <<revision, keyURI, keySuffix, primary, kept, probes, proc>>

\* Unsynchronised store of the package variable, second word.
StoreSecondWord(c) ==
  /\ revision # "locked"
  /\ calls[c].pc \in {"storeData", "storeLen"}
  /\ lastKeyID' = IF calls[c].pc = "storeData"
                  THEN [lastKeyID EXCEPT !.data = Tracked(calls[c].name)]
                  ELSE [lastKeyID EXCEPT !.len = Len(Tracked(calls[c].name))]
  /\ calls' = [calls EXCEPT ![c] = AfterStore(c)]
  /\ UNCHANGED <<revision, keyURI, keySuffix, primary, kept, probes, proc>>

\* Global revision: KeyId: lastKeyId, read without synchronisation.
LoadGlobal(c) ==
  /\ revision = "global"
  /\ calls[c].pc = "load"
  /\ calls' = [calls EXCEPT ![c].respKeyId = StrOf(lastKeyID), ![c].pc = "done"]
  /\ UNCHANGED <<revision, keyURI, keySuffix, lastKeyID, primary, kept, probes, proc>>

\* keyResourceName passing the presented key id on verbatim.
keyResourceNameVerbatim(keyId) == IF keyId # <<>> THEN keyId ELSE keyURI

\* The resource name Decrypt passes to the backend.
keyResourceName(keyId) ==
  IF revision = "v1beta1" THEN keyURI
  ELSE IF revision = "nosuffix" THEN extractKeyVersion(keyId)
  ELSE IF keyId # <<>> THEN extractKeyName(keyId)
  ELSE keyURI

DecryptBegin(c, ciphertext, id) ==
  /\ calls[c].pc = "idle"
  /\ calls' = [calls EXCEPT ![c] =
       [IdleCall EXCEPT !.op = "Decrypt", !.pc = "backend", !.ctext = ciphertext,
                        !.keyId = id, !.resource = keyResourceName(id)]]
  /\ UNCHANGED <<revision, keyURI, keySuffix, lastKeyID, primary, kept, probes, proc>>

\* Decrypt: the backend call returns an error (unreachable, or it rejects
\* the resource name or the ciphertext).
DecryptBackendFails(c) ==
  /\ calls[c].op = "Decrypt" /\ calls[c].pc = "backend"
  /\ calls' = [calls EXCEPT ![c].err = TRUE, ![c].pc = "done",
                            ![c].requests = @ + 1, ![c].reply = "error"]
  /\ UNCHANGED <<revision, keyURI, keySuffix, lastKeyID, primary, kept, probes, proc>>

\* DecryptBackendAnswers returning an empty plaintext, and no error, for a
\* payload that does not decode.
DecryptBackendAnswersLenient(c, garbled) ==
  /\ calls[c].op = "Decrypt" /\ calls[c].pc = "backend"
  /\ CtxAllowsAnswer(c)
  /\ LET request64 == EncodeToString(calls[c].ctext)
         plaintext64 == IF garbled THEN malformed64
                        ELSE BackendDecrypt(calls[c].resource, request64).Plaintext
     IN  /\ BackendDecryptAccepts(calls[c].resource, request64, primary)
         /\ IF WellFormed(plaintext64)
            THEN calls' = [calls EXCEPT ![c].out = DecodeString(plaintext64), ![c].pc = "done",
                                        ![c].requests = @ + 1, ![c].reply = "ok"]
            ELSE calls' = [calls EXCEPT ![c].pc = "done",
                                        ![c].requests = @ + 1, ![c].reply = "malformed"]
  /\ UNCHANGED <<revision, keyURI, keySuffix, lastKeyID, primary, kept, probes, proc>>

\* Decrypt: the backend answers; the plaintext is decoded from base64.
DecryptBackendAnswers(c, garbled) ==
  /\ calls[c].op = "Decrypt" /\ calls[c].pc = "backend"
  /\ CtxAllowsAnswer(c)
  /\ LET request64 == EncodeToString(calls[c].ctext)
         plaintext64 == IF garbled THEN malformed64
                        ELSE BackendDecrypt(calls[c].resource, request64).Plaintext
     IN  /\ BackendDecryptAccepts(calls[c].resource, request64, primary)
         /\ IF WellFormed(plaintext64)
            THEN calls' = [calls EXCEPT ![c].out = DecodeString(plaintext64), ![c].pc = "done",
                                        ![c].requests = @ + 1, ![c].reply = "ok"]
            ELSE calls' = [calls EXCEPT ![c].err = TRUE, ![c].pc = "done",
                                        ![c].requests = @ + 1, ![c].reply = "malformed"]
  /\ UNCHANGED <<revision, keyURI, keySuffix, lastKeyID, primary, kept, probes, proc>>

\* The caller's ctx is done (deadline or cancellation) while the handler
\* waits for the backend.
CtxDone(c) ==
  /\ calls[c].pc = "backend"
  /\ ~calls[c].expired
  /\ calls' = [calls EXCEPT ![c].expired = TRUE]
  /\ UNCHANGED <<revision, keyURI, keySuffix, lastKeyID, primary, kept, probes, proc>>

\* The caller takes the response; it may keep an Encrypt result for a later
\* Decrypt.
Return(c, keep) ==
  /\ calls[c].pc = "done"
  /\ keep => calls[c].op = "Encrypt" /\ ~calls[c].err
  /\ kept' = IF keep
             THEN [has |-> TRUE, plain |-> calls[c].plain, cipher |-> calls[c].out,
                   keyId |-> calls[c].respKeyId]
             ELSE kept
  /\ calls' = [calls EXCEPT ![c] = IdleCall]
  /\ UNCHANGED <<revision, keyURI, keySuffix, lastKeyID, primary, probes, proc>>

\* The backend rotates the key: a new primary version.
Rotate ==
  /\ primary < FirstVersion + MaxRotations
  /\ primary' = primary + 1
  /\ UNCHANGED <<revision, keyURI, keySuffix, lastKeyID, calls, kept, probes, proc>>

(***************************************************************************)
(* HealthZ.Serve: the handler of one healthz request.                      *)
(*   pc      "idle", then the check about to run: "dial", "pingRPC",       *)
(*           "testIAM", "encrypt", "decrypt" (the two calls of pingKMS),   *)
(*           then "done" once the response is written                      *)
(*   query   r.FormValue("ping-kms")                                       *)
(*   log     the checks made so far, in order, each with its result:       *)
(*           "ok", "error" (the call failed) or "denied" (testIAM found    *)
(*           permissions missing)                                          *)
(*   got     the permissions the backend has reported as granted           *)
(*   missing the permissions testIAMPermissions reports as missing         *)
(*   recovered   what the Decrypt of pingKMS returned: "none" (no answer), *)
(*           "secret" (the plaintext that was encrypted) or "other"        *)
(*   status, body   the HTTP response                                      *)
(*   expired the deadline of ctx (context.WithTimeout(r.Context(),         *)
(*           h.CallTimeout)) has passed                                    *)
(***************************************************************************)
StatusOK == 200
StatusForbidden == 403
StatusServiceUnavailable == 503

IdleProbe ==
  [pc |-> "idle", query |-> "", log |-> <<>>, got |-> {}, missing |-> {},
   recovered |-> "none", status |-> 0, body |-> "", expired |-> FALSE]

Queries == {"", "true", "false"}

want == {"cloudkms.cryptoKeyVersions.useToEncrypt", "cloudkms.cryptoKeyVersions.useToDecrypt"}

Grantable == want \cup {"cloudkms.cryptoKeys.get"}

Checked(h, check, result) == Append(probes[h].log, [check |-> check, result |-> result])

\* http.Error(w, err.Error(), code); return
HttpError(h, check, result, code) ==
  [probes[h] EXCEPT !.log = Checked(h, check, result), !.status = code,
                    !.body = "error", !.pc = "done"]

\* w.WriteHeader(http.StatusOK); w.Write([]byte("ok"))
WriteOK(h, check) ==
  [probes[h] EXCEPT !.log = Checked(h, check, "ok"), !.status = StatusOK,
                    !.body = "ok", !.pc = "done"]

Proceed(h, check, next) ==
  [probes[h] EXCEPT !.log = Checked(h, check, "ok"), !.pc = next]

\* A GET on the healthz path arrives.
ProbeArrives(h, q) ==
  /\ probes[h].pc = "idle"
  /\ probes' = [probes EXCEPT ![h] = [IdleProbe EXCEPT !.pc = "dial", !.query = q]]
  /\ UNCHANGED pluginVars

\* connection, err := dialUnix(h.UnixSocketPath)
ProbeDial(h, success) ==
  /\ probes[h].pc = "dial"
  /\ probes' = [probes EXCEPT ![h] =
       IF success THEN Proceed(h, "dial", "pingRPC")
       ELSE HttpError(h, "dial", "error", StatusServiceUnavailable)]
  /\ UNCHANGED pluginVars

\* ProbePingRPC without the return after http.Error.
ProbePingRPCNoReturn(h, success) ==
  /\ probes[h].pc = "pingRPC"
  /\ success => ~probes[h].expired
  /\ probes' = [probes EXCEPT ![h] =
       IF success THEN Proceed(h, "pingRPC", "testIAM")
       ELSE [HttpError(h, "pingRPC", "error", StatusServiceUnavailable) EXCEPT !.pc = "testIAM"]]
  /\ UNCHANGED pluginVars

\* h.pingRPC(ctx, c): the Version call over the socket; it fails once ctx has
\* expired.
ProbePingRPC(h, success) ==
  /\ probes[h].pc = "pingRPC"
  /\ success => ~probes[h].expired
  /\ probes' = [probes EXCEPT ![h] =
       IF success THEN Proceed(h, "pingRPC", "testIAM")
       ELSE HttpError(h, "pingRPC", "error", StatusServiceUnavailable)]
  /\ UNCHANGED pluginVars

\* AfterIAM running the deep probe whatever the query says.
AfterIAMAlways(h) == Proceed(h, "testIAM", "encrypt")

\* After a passed permission check: the deep probe on ping-kms=true, else 200.
AfterIAM(h) ==
  IF probes[h].query = "true" THEN Proceed(h, "testIAM", "encrypt")
  ELSE WriteOK(h, "testIAM")

\* h.testIAMPermissions(): the TestIamPermissions(...).Do() call fails.
ProbeTestIAMFails(h) ==
  /\ probes[h].pc = "testIAM"
  /\ probes' = [probes EXCEPT ![h] = HttpError(h, "testIAM", "error", StatusForbidden)]
  /\ UNCHANGED pluginVars

\* ProbeTestIAMAnswers taking the difference the other way round:
\* got.Difference(want).
ProbeTestIAMAnswersSwapped(h, got) ==
  /\ probes[h].pc = "testIAM"
  /\ LET diff == got \ want
     IN  probes' = [probes EXCEPT ![h] =
           IF diff # {}
           THEN [HttpError(h, "testIAM", "denied", StatusForbidden)
                   EXCEPT !.got = got, !.missing = diff]
           ELSE [AfterIAM(h) EXCEPT !.got = got]]
  /\ UNCHANGED pluginVars

\* h.testIAMPermissions(): the backend reports the granted permissions;
\* diff := want.Difference(got).
ProbeTestIAMAnswers(h, got) ==
  /\ probes[h].pc = "testIAM"
  /\ LET diff == want \ got
     IN  probes' = [probes EXCEPT ![h] =
           IF diff # {}
           THEN [HttpError(h, "testIAM", "denied", StatusForbidden)
                   EXCEPT !.got = got, !.missing = diff]
           ELSE [AfterIAM(h) EXCEPT !.got = got]]
  /\ UNCHANGED pluginVars

\* h.pingKMS(ctx, c): c.Encrypt(ctx, ...); it fails once ctx has expired.
ProbePingKMSEncrypt(h, success) ==
  /\ probes[h].pc = "encrypt"
  /\ success => ~probes[h].expired
  /\ probes' = [probes EXCEPT ![h] =
       IF success THEN Proceed(h, "encrypt", "decrypt")
       ELSE HttpError(h, "encrypt", "error", StatusServiceUnavailable)]
  /\ UNCHANGED pluginVars

\* h.pingKMS(ctx, c): _, err = c.Decrypt(context.Background(), ...).  The
\* call fails (outcome "decrypt"), or it answers with the plaintext that was
\* encrypted ("ok") or with another one ("mismatch"); the plaintext of the
\* answer is discarded.
ProbePingKMSDecrypt(h, outcome) ==
  /\ probes[h].pc = "decrypt"
  /\ probes' = [probes EXCEPT ![h] =
       IF outcome = "decrypt"
       THEN HttpError(h, "decrypt", "error", StatusServiceUnavailable)
       ELSE [WriteOK(h, "decrypt") EXCEPT
               !.recovered = IF outcome = "ok" THEN "secret" ELSE "other"]]
  /\ UNCHANGED pluginVars

\* The deadline of the request's ctx passes while the handler runs.
ProbeDeadline(h) ==
  /\ probes[h].pc \notin {"idle", "done"}
  /\ ~probes[h].expired
  /\ probes' = [probes EXCEPT ![h].expired = TRUE]
  /\ UNCHANGED pluginVars

\* The client has read the response.
ProbeAnswered(h) ==
  /\ probes[h].pc = "done"
  /\ probes' = [probes EXCEPT ![h] = IdleProbe]
  /\ UNCHANGED pluginVars

(***************************************************************************)
(* The process: main, then Orchestrator.Run (plugin/orchestrator.go) or    *)
(* run (cmd/plugin main); the main of k8s-cloud-kms-plugin.go; or a        *)
(* program that embeds the plugin and calls its Start and Stop.            *)
(*   entry     "Run", "run", "main" or "Start"                             *)
(*   pc        the statement the main goroutine is about to execute;       *)
(*             "running" (Run has returned), "loop" (the select of run),   *)
(*             "deferred" (run has returned, its deferred GracefulStop is  *)
(*             still to run), "exit" (glog.Exit), "exited"                 *)
(*   granted   the permissions the backend grants on the key               *)
(*   validated mustValidatePrerequisites has returned                      *)
(*   listener  net.Listen on the unix socket has succeeded                 *)
(*   grpc      the gRPC server: "none", "serving", "failed" (Serve has     *)
(*             returned an error), "stopped" (GracefulStop has returned)   *)
(*   smoke     mustPingRPC has returned                                    *)
(*   healthz, metrics   the HTTP listeners: "off", "serving", "failed"     *)
(*   kmsErr    an error waits in kmsErrorChan                              *)
(*   metricsErr, healthzErr   "none", "pending" (the goroutine is sending  *)
(*             the error of ListenAndServe), "taken" (run has received it  *)
(*             and set its channel variable to nil)                        *)
(*   sig       a SIGINT or SIGTERM waits in signalsChan                    *)
(*   warnings  the listeners run has logged a warning for                  *)
(*   ret       what run returned: "none", "signal", "kmsError"             *)
(*   how       how the process ended: "none", "fatal" (glog.Fatal),        *)
(*             "exit" (glog.Exit), "panic"                                 *)
(*   lastHealth   the status of the last answer of the health endpoint     *)
(*   sockPath  the kind of path-to-unix-socket: "path" (a file system      *)
(*             path) or "abstract" (a name that begins with "@")           *)
(*   dirOK     the directory of path-to-unix-socket exists                 *)
(*   file      the file system entry at the socket path: "absent", "stale" *)
(*             (left by an earlier process) or "socket" (bound by this     *)
(*             process)                                                    *)
(*   unlinked  cleanSockFile has removed an entry at the socket path       *)
(*   created   the listeners net.Listen has returned                       *)
(*   closes    the Close calls made on the listener                        *)
(*   other     a second Plugin the process has constructed, for the key    *)
(*             otherKeyName: made, and the lastKeyID field of that         *)
(*             instance (the locked revision keeps the tracker there)      *)
(***************************************************************************)
Entries == {"Run", "run", "main", "Start"}

NewProc(entry, granted) ==
  [entry |-> entry,
   pc |-> IF entry = "Run" THEN "mustHaveIAMPermissions"
          ELSE IF entry = "run" THEN "mustValidateFlags"
          ELSE entry,
   granted |-> granted, validated |-> FALSE, listener |-> FALSE, grpc |-> "none",
   smoke |-> FALSE, healthz |-> "off", metrics |-> "off", kmsErr |-> FALSE,
   metricsErr |-> "none", healthzErr |-> "none", sig |-> FALSE, warnings |-> {},
   ret |-> "none", how |-> "none", lastHealth |-> 0,
   sockPath |-> "path", dirOK |-> TRUE, file |-> "absent", unlinked |-> FALSE,
   created |-> 0, closes |-> 0,
   other |-> [made |-> FALSE, lastKeyID |-> Str(<<>>)]]

\* glog.Fatalf: the process ends at once.
Fatal == [proc EXCEPT !.pc = "exited", !.how = "fatal"]

\* glog.Exitf: the process ends at once, too.
Exitf == [proc EXCEPT !.pc = "exited", !.how = "exit"]

\* cleanSockFile of Run and run returns at once for a name that begins with
\* "@"; cleanSockFile of main and Start unlinks the name whatever it is.
SkipsAbstract == proc.entry \in {"Run", "run"} /\ proc.sockPath = "abstract"

\* cleanSockFile, then net.Listen, of setupRPCServer / SetupRPCServer /
\* Start.  cleaned: the unlink of the socket path succeeds or finds nothing;
\* listened: net.Listen succeeds.  The result tells whether an error is
\* returned and what is then at the socket path.
CanSetup(cleaned, listened) ==
  /\ ~cleaned => (~SkipsAbstract /\ proc.file = "stale" /\ ~listened)
  /\ listened => proc.dirOK

\* setupRPCServer unlinking the socket path whatever its name.
setupRPCServerAnyName(cleaned, listened) ==
  IF ~cleaned THEN [err |-> TRUE, file |-> proc.file, unlinked |-> FALSE]
  ELSE [err |-> ~listened,
        file |-> IF listened /\ proc.sockPath = "path" THEN "socket" ELSE "absent",
        unlinked |-> proc.file = "stale"]

setupRPCServer(cleaned, listened) ==
  IF ~cleaned THEN [err |-> TRUE, file |-> proc.file, unlinked |-> FALSE]
  ELSE IF SkipsAbstract
       THEN [err |-> ~listened, file |-> proc.file, unlinked |-> FALSE]
       ELSE [err |-> ~listened,
             file |-> IF listened /\ proc.sockPath = "path" THEN "socket" ELSE "absent",
             unlinked |-> proc.file = "stale"]

\* The fields of the process after a successful setupRPCServer.
Listening(p, setup) ==
  [p EXCEPT !.listener = TRUE, !.created = @ + 1, !.file = setup.file,
            !.unlinked = setup.unlinked]

\* Close of the listener: the first Close of a listener that net.Listen
\* bound to a path unlinks the socket file.
Close(p) ==
  [p EXCEPT !.closes = @ + 1,
            !.file = IF p.sockPath = "path" /\ @ = "socket" THEN "absent" ELSE @]

encryptIAMPermission == "cloudkms.cryptoKeyVersions.useToEncrypt"
decryptIAMPermission == "cloudkms.cryptoKeyVersions.useToDecrypt"

\* Validator.mustHaveIAMPermissions: TestIamPermissions fails, or answers.
mustHaveIAMPermissions(answered) ==
  /\ proc.entry = "Run" /\ proc.pc = "mustHaveIAMPermissions"
  /\ proc' = IF /\ answered
                /\ encryptIAMPermission \in proc.granted
                /\ decryptIAMPermission \in proc.granted
             THEN [proc EXCEPT !.pc = "mustPingKMS"]
             ELSE Fatal
  /\ UNCHANGED handlerVars

\* Validator.mustPingKMS: Encrypt and Decrypt of "secret" through the plugin;
\* the outcome is "ok", "encrypt" / "decrypt" (that call failed) or
\* "mismatch" (the plaintext came back changed).
PingOutcomes == {"ok", "encrypt", "decrypt", "mismatch"}

mustPingKMS(outcome) ==
  /\ proc.entry = "Run" /\ proc.pc = "mustPingKMS"
  /\ proc' = IF outcome = "ok"
             THEN [proc EXCEPT !.pc = "mustServeKMSRequests", !.validated = TRUE]
             ELSE Fatal
  /\ UNCHANGED handlerVars

\* Plugin.mustServeKMSRequests: setupRPCServer, then go g.mustServeRPC().
mustServeKMSRequests(cleaned, listened) ==
  /\ proc.entry = "Run" /\ proc.pc = "mustServeKMSRequests"
  /\ CanSetup(cleaned, listened)
  /\ LET setup == setupRPCServer(cleaned, listened)
     IN  proc' = IF setup.err
                 THEN [Fatal EXCEPT !.file = setup.file, !.unlinked = setup.unlinked]
                 ELSE [Listening(proc, setup) EXCEPT !.pc = "mustPingRPC", !.grpc = "serving"]
  /\ UNCHANGED handlerVars

\* Plugin.mustServeRPC, and the end of the main of k8s-cloud-kms-plugin.go:
\* g.Serve(g.Listener) returns an error, having closed the listener.
mustServeRPC ==
  /\ proc.entry \in {"Run", "main"} /\ proc.pc # "exited" /\ proc.grpc = "serving"
  /\ proc' = [Close(Fatal) EXCEPT !.grpc = "failed"]
  /\ UNCHANGED handlerVars

\* Validator.mustPingRPC: Encrypt and Decrypt of "secret" over the socket.
mustPingRPC(outcome) ==
  /\ proc.entry = "Run" /\ proc.pc = "mustPingRPC"
  /\ proc' = IF outcome = "ok" /\ proc.grpc = "serving"
             THEN [proc EXCEPT !.pc = "mustServe", !.smoke = TRUE]
             ELSE Fatal
  /\ UNCHANGED handlerVars

\* metrics.mustServe: go m.mustServeHealthz(); go m.mustServeMetrics().
mustServe ==
  /\ proc.entry = "Run" /\ proc.pc = "mustServe"
  /\ proc' = [proc EXCEPT !.pc = "running", !.healthz = "serving", !.metrics = "serving"]
  /\ UNCHANGED handlerVars

\* metrics.mustServeHealthz: glog.Fatal(http.ListenAndServe(...)).
mustServeHealthz ==
  /\ proc.entry \in {"Run", "main"} /\ proc.pc # "exited" /\ proc.healthz = "serving"
  /\ proc' = [Fatal EXCEPT !.healthz = "failed"]
  /\ UNCHANGED handlerVars

\* metrics.mustServeMetrics: glog.Fatal(http.ListenAndServe(...)).
mustServeMetrics ==
  /\ proc.entry \in {"Run", "main"} /\ proc.pc # "exited" /\ proc.metrics = "serving"
  /\ proc' = [Fatal EXCEPT !.metrics = "failed"]
  /\ UNCHANGED handlerVars

\* mustValidateFlags of cmd/plugin: the directory of path-to-unix-socket must
\* exist; key-uri and key-suffix are not looked at (kms=v2).
mustValidateFlags ==
  /\ proc.entry = "run" /\ proc.pc = "mustValidateFlags"
  /\ proc' = IF proc.dirOK THEN [proc EXCEPT !.pc = "Serve"] ELSE Exitf
  /\ UNCHANGED handlerVars

\* run: signalsChan, signal.Notify; metricsErrChan := m.Serve();
\* healthzErrChan := h.Serve().  Each Serve starts a goroutine that runs
\* http.ListenAndServe.
Serve ==
  /\ proc.entry = "run" /\ proc.pc = "Serve"
  /\ proc' = [proc EXCEPT !.pc = "ServeKMSRequests", !.healthz = "serving",
                          !.metrics = "serving"]
  /\ UNCHANGED handlerVars

\* http.ListenAndServe of the metrics or of the healthz goroutine returns an
\* error, which the goroutine sends on its channel.
ListenAndServe(which) ==
  /\ proc.entry = "run" /\ proc.pc # "exited"
  /\ proc' = IF which = "metrics"
             THEN [proc EXCEPT !.metrics = "failed", !.metricsErr = "pending"]
             ELSE [proc EXCEPT !.healthz = "failed", !.healthzErr = "pending"]
  /\ (IF which = "metrics" THEN proc.metrics ELSE proc.healthz) = "serving"
  /\ UNCHANGED handlerVars

\* Plugin.ServeKMSRequests: setupRPCServer; on an error the error is put in
\* the channel and the server returned is nil; else go g.Serve(g.Listener).
ServeKMSRequests(cleaned, listened) ==
  /\ proc.entry = "run" /\ proc.pc = "ServeKMSRequests"
  /\ CanSetup(cleaned, listened)
  /\ LET setup == setupRPCServer(cleaned, listened)
     IN  proc' = IF setup.err
                 THEN [proc EXCEPT !.pc = "loop", !.kmsErr = TRUE, !.file = setup.file,
                                   !.unlinked = setup.unlinked]
                 ELSE [Listening(proc, setup) EXCEPT !.pc = "loop", !.grpc = "serving"]
  /\ UNCHANGED handlerVars

\* The goroutine of ServeKMSRequests: g.Serve(g.Listener) returns an error,
\* having closed the listener.
ServeReturns ==
  /\ proc.entry = "run" /\ proc.pc # "exited" /\ proc.grpc = "serving"
  /\ proc' = [Close(proc) EXCEPT !.grpc = "failed", !.kmsErr = TRUE]
  /\ UNCHANGED handlerVars

\* SIGINT or SIGTERM is delivered to signalsChan (capacity 1).
Signal ==
  /\ proc.entry = "run" /\ proc.pc \notin {"exit", "exited"} /\ ~proc.sig
  /\ proc' = [proc EXCEPT !.sig = TRUE]
  /\ UNCHANGED handlerVars

\* case sig := <-signalsChan: return fmt.Errorf("captured ...")
SelectSignal ==
  /\ proc.pc = "loop" /\ proc.sig
  /\ proc' = [proc EXCEPT !.pc = "deferred", !.sig = FALSE, !.ret = "signal"]
  /\ UNCHANGED handlerVars

\* case kmsError := <-kmsErrorChan: return kmsError
SelectKmsError ==
  /\ proc.pc = "loop" /\ proc.kmsErr
  /\ proc' = [proc EXCEPT !.pc = "deferred", !.kmsErr = FALSE, !.ret = "kmsError"]
  /\ UNCHANGED handlerVars

\* SelectMetricsErr returning the error of the metrics listener.
SelectMetricsErrReturns ==
  /\ proc.pc = "loop" /\ proc.metricsErr = "pending"
  /\ proc' = [proc EXCEPT !.pc = "deferred", !.metricsErr = "taken", !.ret = "metricsErr"]
  /\ UNCHANGED handlerVars

\* case metricsErr := <-metricsErrChan: glog.Warning; metricsErrChan = nil
SelectMetricsErr ==
  /\ proc.pc = "loop" /\ proc.metricsErr = "pending"
  /\ proc' = [proc EXCEPT !.metricsErr = "taken", !.warnings = @ \cup {"metrics"}]
  /\ UNCHANGED handlerVars

\* case healthzErr := <-healthzErrChan: glog.Warning; healthzErrChan = nil
SelectHealthzErr ==
  /\ proc.pc = "loop" /\ proc.healthzErr = "pending"
  /\ proc' = [proc EXCEPT !.healthzErr = "taken", !.warnings = @ \cup {"healthz"}]
  /\ UNCHANGED handlerVars

\* RunDeferred leaving out the deferred call.
RunDeferredNoStop ==
  /\ proc.pc = "deferred"
  /\ proc' = [proc EXCEPT !.pc = "exit"]
  /\ UNCHANGED handlerVars

\* defer gRPCSrv.GracefulStop(): stops the server, which closes the listener
\* it still serves on, or dereferences the nil server ServeKMSRequests
\* returned with its error.
RunDeferred ==
  /\ proc.pc = "deferred"
  /\ proc' = IF ~proc.listener THEN [proc EXCEPT !.pc = "exited", !.how = "panic"]
             ELSE [(IF proc.grpc = "serving" THEN Close(proc) ELSE proc)
                     EXCEPT !.pc = "exit", !.grpc = "stopped"]
  /\ UNCHANGED handlerVars

\* main: glog.Exit(run(p, hc, metrics))
Exit ==
  /\ proc.pc = "exit"
  /\ proc' = [proc EXCEPT !.pc = "exited", !.how = "exit"]
  /\ UNCHANGED handlerVars

(***************************************************************************)
(* The main of k8s-cloud-kms-plugin.go.                                    *)
(* KeyURIPattern: ^projects\/[-a-zA-Z0-9_]*\/locations\/[-a-zA-Z0-9_]*       *)
(* \/keyRings\/[-a-zA-Z0-9_]*\/cryptoKeys\/[-a-zA-Z0-9_]*, matched at the    *)
(* start of the string; each class may match nothing.  Every token of the  *)
(* model other than "/" and ":" consists of characters of the class.       *)
(***************************************************************************)
\* Index of the "/" that ends "<word>/<class>*" starting at i, or 0.
PatternSegEnd(s, i, word) ==
  IF ~(Lit(s, i, word) /\ Lit(s, i + 1, "/")) THEN 0
  ELSE IF Lit(s, i + 2, "/") THEN i + 2
  ELSE IF i + 2 <= Len(s) /\ s[i + 2] # ":" /\ Lit(s, i + 3, "/") THEN i + 3
  ELSE 0

\* keyURIPattern.MatchString(*keyURI)
MatchString(s) ==
  LET a == PatternSegEnd(s, 1, "projects")
      b == IF a = 0 THEN 0 ELSE PatternSegEnd(s, a + 1, "locations")
      c == IF b = 0 THEN 0 ELSE PatternSegEnd(s, b + 1, "keyRings")
  IN  c # 0 /\ Lit(s, c + 1, "cryptoKeys") /\ Lit(s, c + 2, "/")

\* main, up to the start of the metrics goroutine: key-uri must match
\* KeyURIPattern and the directory of path-to-unix-socket must exist.
main ==
  /\ proc.entry = "main" /\ proc.pc = "main"
  /\ proc' = IF MatchString(keyURI) /\ proc.dirOK
             THEN [proc EXCEPT !.pc = "mainPingKMS", !.metrics = "serving"]
             ELSE Fatal
  /\ UNCHANGED handlerVars

\* main: plugin.New, then mustPingKMS(kmsPlugin).
mainPingKMS(outcome) ==
  /\ proc.entry = "main" /\ proc.pc = "mainPingKMS"
  /\ proc' = IF outcome = "ok" THEN [proc EXCEPT !.pc = "SetupRPCServer"] ELSE Fatal
  /\ UNCHANGED handlerVars

\* main: kmsPlugin.SetupRPCServer(), fatal on an error; then the goroutine
\* that will ping the socket is started and main calls Serve.
SetupRPCServer(cleaned, listened) ==
  /\ proc.entry = "main" /\ proc.pc = "SetupRPCServer"
  /\ CanSetup(cleaned, listened)
  /\ LET setup == setupRPCServer(cleaned, listened)
     IN  proc' = IF setup.err
                 THEN [Fatal EXCEPT !.file = setup.file, !.unlinked = setup.unlinked]
                 ELSE [Listening(proc, setup) EXCEPT !.pc = "running", !.grpc = "serving"]
  /\ UNCHANGED handlerVars

\* The goroutine of main: mustPingRPC(kmsPlugin), then the healthz handler
\* is registered and served.
mainPingRPC(outcome) ==
  /\ proc.entry = "main" /\ proc.pc = "running" /\ ~proc.smoke
  /\ proc' = IF outcome = "ok" /\ proc.grpc = "serving"
             THEN [proc EXCEPT !.smoke = TRUE, !.healthz = "serving"]
             ELSE Fatal
  /\ UNCHANGED handlerVars

(***************************************************************************)
(* A program that embeds the plugin of plugin.go: Start, and Stop when it  *)
(* is done (defer plugin.Stop()).                                          *)
(***************************************************************************)
\* Plugin.Start: cleanSockFile, net.Listen, go server.Serve(listener); on an
\* error Listener and Server stay nil.
Start(cleaned, listened) ==
  /\ proc.entry = "Start" /\ proc.pc = "Start"
  /\ CanSetup(cleaned, listened)
  /\ LET setup == setupRPCServer(cleaned, listened)
     IN  proc' = IF setup.err
                 THEN [proc EXCEPT !.pc = "Stop", !.ret = "startError", !.file = setup.file,
                                   !.unlinked = setup.unlinked]
                 ELSE [Listening(proc, setup) EXCEPT !.pc = "Stop", !.grpc = "serving"]
  /\ UNCHANGED handlerVars

\* Plugin.Stop: g.Server.Stop(), which closes the listener the server serves
\* on; g.Listener.Close(); and in plugin.go cleanSockFile if something is
\* still at the socket path.
Stop ==
  /\ proc.entry = "Start" /\ proc.pc = "Stop"
  /\ LET stopped == IF proc.listener THEN [Close(proc) EXCEPT !.grpc = "stopped"] ELSE proc
         closed == IF proc.listener THEN Close(stopped) ELSE stopped
         cleaned == IF closed.file # "absent"
                    THEN [closed EXCEPT !.file = "absent", !.unlinked = TRUE]
                    ELSE closed
     IN  proc' = [cleaned EXCEPT !.pc = "exited", !.how = "return"]
  /\ UNCHANGED handlerVars

\* One request to the health endpoint, answered while the process lives: by
\* the handler of metrics.mustServeHealthz (always 200) under Run and by
\* handleHealthz under main (the same), by the
\* handler of HealthZ.Serve under run (dial and ping of the socket, then the
\* permission check; callOK tells whether the calls it makes come back).
HealthAnswer(callOK) ==
  /\ proc.pc # "exited" /\ proc.healthz = "serving"
  /\ proc' = [proc EXCEPT !.lastHealth =
       IF proc.entry \in {"Run", "main"} THEN StatusOK
       ELSE IF proc.grpc # "serving" THEN StatusServiceUnavailable
       ELSE IF ~callOK \/ ~(want \subseteq proc.granted) THEN StatusForbidden
       ELSE StatusOK]
  /\ proc'.lastHealth # proc.lastHealth
  /\ UNCHANGED handlerVars

(***************************************************************************)
(* SpecLifecycle: one process from its entry point to its exit.            *)
(***************************************************************************)
\* Values of the key-uri flag: a key name; a key name cut short; a key name
\* whose every segment is empty; the default, "".
emptySegmentsKey == <<"projects", "/", "/", "locations", "/", "/", "keyRings", "/", "/",
                      "cryptoKeys", "/">>

ConfiguredKeys == {keyName, <<"projects", "/", "my-project">>, emptySegmentsKey, <<>>}

\* What the process finds at path-to-unix-socket: an abstract name has the
\* working directory as its directory; nothing is inside a directory that
\* does not exist.
SocketPaths ==
  {env \in [sockPath : {"path", "abstract"}, dirOK : BOOLEAN, file : {"absent", "stale"}] :
     /\ env.sockPath = "abstract" => env.dirOK
     /\ ~env.dirOK => env.file = "absent"}

\* The permissions matter to Run only, the key-uri checks to run and main.
InitLifecycle ==
  /\ \E uri \in ConfiguredKeys : NewPlugin("locked", uri, <<>>)
  /\ primary = FirstVersion
  /\ calls = [c \in Calls |-> IdleCall]
  /\ kept = NoneKept
  /\ probes = [h \in Probes |-> IdleProbe]
  /\ \E entry \in Entries, granted \in SUBSET Grantable, env \in SocketPaths :
       /\ entry # "Run" => granted = want
       /\ entry \in {"Run", "Start"} => keyURI = keyName
       /\ proc = [NewProc(entry, granted) EXCEPT !.sockPath = env.sockPath,
                                                 !.dirOK = env.dirOK, !.file = env.file]

NextLifecycle ==
  \/ \E answered \in BOOLEAN : mustHaveIAMPermissions(answered)
  \/ \E outcome \in PingOutcomes : mustPingKMS(outcome)
  \/ \E cleaned, listened \in BOOLEAN : mustServeKMSRequests(cleaned, listened)
  \/ mustServeRPC
  \/ \E outcome \in PingOutcomes : mustPingRPC(outcome)
  \/ mustServe
  \/ mustServeHealthz
  \/ mustServeMetrics
  \/ mustValidateFlags
  \/ Serve
  \/ \E which \in {"metrics", "healthz"} : ListenAndServe(which)
  \/ \E cleaned, listened \in BOOLEAN : ServeKMSRequests(cleaned, listened)
  \/ ServeReturns
  \/ Signal
  \/ SelectSignal
  \/ SelectKmsError
  \/ SelectMetricsErr
  \/ SelectHealthzErr
  \/ RunDeferred
  \/ Exit
  \/ main
  \/ \E outcome \in PingOutcomes : mainPingKMS(outcome)
  \/ \E cleaned, listened \in BOOLEAN : SetupRPCServer(cleaned, listened)
  \/ \E outcome \in PingOutcomes : mainPingRPC(outcome)
  \/ \E cleaned, listened \in BOOLEAN : Start(cleaned, listened)
  \/ Stop
  \/ \E callOK \in BOOLEAN : HealthAnswer(callOK)

SpecLifecycle == InitLifecycle /\ [][NextLifecycle]_vars

(***************************************************************************)
(* Inputs.                                                                 *)
(***************************************************************************)
PlainBytes == {90, 165}

Plaintexts == UNION {[1..n -> PlainBytes] : n \in 0..MaxPlainLen}

\* A ciphertext sealed long ago under the old key, and key ids a caller may
\* present with it.
oldCiphertext == <<16 * KeyTag(otherKeyName) + FirstVersion, 7>>

PresentedKeyIds ==
  {otherKeyName,
   keyVersionName(otherKeyName, FirstVersion),
   keyVersionName(otherKeyName, FirstVersion) \o <<":", "test">>,
   otherKeyName \o <<":", "test">>,
   otherKeyName \o <<":">>,
   <<"projects", "/", "my-project">>,
   <<"1234567">>}

Init ==
  /\ \E rev \in Revisions, suffix \in Suffixes :
       /\ rev = "nosuffix" => suffix = <<>>
       /\ NewPlugin(rev, keyName, suffix)
  /\ primary = FirstVersion
  /\ calls = [c \in Calls |-> IdleCall]
  /\ kept = NoneKept
  /\ probes = [h \in Probes |-> IdleProbe]
  /\ proc = NewProc("run", want)

\* The plaintext of the health checker's PingKMS: []byte("secret").
secret == <<115, 101, 99, 114, 101, 116>>

\* No call is in flight.
Quiet == \A c \in Calls : calls[c].pc = "idle"

(***************************************************************************)
(* Spec: Status and Encrypt calls served concurrently, one goroutine per   *)
(* call, while the backend rotates the key.                                *)
(***************************************************************************)
Next ==
  \/ \E c \in Calls : StatusBegin(c)
  \/ \E c \in Calls : StatusProbeFails(c)
  \/ \E c \in Calls : StatusProbeSucceeds(c)
  \/ \E c \in Calls : EncryptBegin(c, secret)
  \/ \E c \in Calls : EncryptBackendFails(c)
  \/ \E c \in Calls, garbled \in BOOLEAN : EncryptBackendAnswers(c, garbled)
  \/ \E c \in Calls : StoreLocked(c)
  \/ \E c \in Calls, word \in {"data", "len"} : StoreFirstWord(c, word)
  \/ \E c \in Calls : StoreSecondWord(c)
  \/ \E c \in Calls : LoadGlobal(c)
  \/ \E c \in Calls : Return(c, FALSE)
  \/ Rotate

Spec == Init /\ [][Next]_vars

(***************************************************************************)
(* SpecRouting: one caller issuing Status, Encrypt and Decrypt calls one   *)
(* after the other, keeping an Encrypt result across later calls and       *)
(* rotations.                                                              *)
(***************************************************************************)
NextRouting ==
  \/ \E c \in Calls : Quiet /\ StatusBegin(c)
  \/ \E c \in Calls : StatusProbeFails(c)
  \/ \E c \in Calls : StatusProbeSucceeds(c)
  \/ \E c \in Calls, p \in Plaintexts : Quiet /\ EncryptBegin(c, p)
  \/ \E c \in Calls : EncryptBackendFails(c)
  \/ \E c \in Calls, garbled \in BOOLEAN : EncryptBackendAnswers(c, garbled)
  \/ \E c \in Calls : StoreLocked(c)
  \/ \E c \in Calls, word \in {"data", "len"} : StoreFirstWord(c, word)
  \/ \E c \in Calls : StoreSecondWord(c)
  \/ \E c \in Calls : LoadGlobal(c)
  \/ \E c \in Calls : Quiet /\ kept.has /\ DecryptBegin(c, kept.cipher, kept.keyId)
  \/ \E c \in Calls : Quiet /\ kept.has /\ DecryptBegin(c, kept.cipher, <<>>)
  \/ \E c \in Calls, id \in PresentedKeyIds : Quiet /\ DecryptBegin(c, oldCiphertext, id)
  \/ \E c \in Calls : DecryptBackendFails(c)
  \/ \E c \in Calls, garbled \in BOOLEAN : DecryptBackendAnswers(c, garbled)
  \/ \E c \in Calls, keep \in BOOLEAN : Return(c, keep)
  \/ Rotate

SpecRouting == Init /\ [][NextRouting]_vars

(***************************************************************************)
(* SpecDeadline: the calls of SpecRouting with a caller whose ctx may be   *)
(* done before the backend answers, served by a v2 revision or by the      *)
(* v1beta1 plugin.                                                         *)
(***************************************************************************)
InitDeadline ==
  /\ \E rev \in Revisions \cup {"v1beta1"}, suffix \in Suffixes :
       /\ rev \in {"nosuffix", "v1beta1"} => suffix = <<>>
       /\ NewPlugin(rev, keyName, suffix)
  /\ primary = FirstVersion
  /\ calls = [c \in Calls |-> IdleCall]
  /\ kept = NoneKept
  /\ probes = [h \in Probes |-> IdleProbe]
  /\ proc = NewProc("run", want)

NextDeadline ==
  \/ NextRouting
  \/ \E c \in Calls : CtxDone(c)

SpecDeadline == InitDeadline /\ [][NextDeadline]_vars

(***************************************************************************)
(* SpecInstances: one process holding two Plugin values, as a test binary  *)
(* does.  The first is the plugin of Init, serving one call at a time; the *)
(* second is constructed later for otherKeyName and serves whole calls.    *)
(***************************************************************************)
\* The second instance stores an identifier: in its own lastKeyID field in
\* the locked revision, in the package variable in the other two.
OtherStores(id) ==
  IF revision = "locked"
  THEN /\ proc' = [proc EXCEPT !.other.lastKeyID = Str(id)]
       /\ UNCHANGED lastKeyID
  ELSE /\ lastKeyID' = Str(id)
       /\ UNCHANGED proc

\* NewPlugin called a second time in the process.
NewOtherPlugin ==
  /\ ~proc.other.made
  /\ IF revision = "locked"
     THEN /\ proc' = [proc EXCEPT !.other =
                       [made |-> TRUE, lastKeyID |-> Str(getKeyId(otherKeyName, keySuffix))]]
          /\ UNCHANGED lastKeyID
     ELSE /\ proc' = [proc EXCEPT !.other.made = TRUE]
          /\ lastKeyID' = Str(IF revision = "nosuffix" THEN otherKeyName
                              ELSE getKeyId(otherKeyName, keySuffix))
  /\ UNCHANGED <<revision, keyURI, keySuffix, primary, calls, kept, probes>>

\* A whole Status or Encrypt call on the second instance: both store the
\* name of the key version the backend answered with.
OtherCall(op, success) ==
  /\ proc.other.made
  /\ op \in {"Status", "Encrypt"}
  /\ IF success THEN OtherStores(Tracked(keyVersionName(otherKeyName, primary)))
     ELSE UNCHANGED <<lastKeyID, proc>>
  /\ UNCHANGED <<revision, keyURI, keySuffix, primary, calls, kept, probes>>

NextInstances ==
  \/ \E c \in Calls : Quiet /\ StatusBegin(c)
  \/ \E c \in Calls : StatusProbeFails(c)
  \/ \E c \in Calls : StatusProbeSucceeds(c)
  \/ \E c \in Calls : Quiet /\ EncryptBegin(c, secret)
  \/ \E c \in Calls : EncryptBackendFails(c)
  \/ \E c \in Calls, garbled \in BOOLEAN : EncryptBackendAnswers(c, garbled)
  \/ \E c \in Calls : StoreLocked(c)
  \/ \E c \in Calls, word \in {"data", "len"} : StoreFirstWord(c, word)
  \/ \E c \in Calls : StoreSecondWord(c)
  \/ \E c \in Calls : LoadGlobal(c)
  \/ \E c \in Calls : Return(c, FALSE)
  \/ NewOtherPlugin
  \/ \E op \in {"Status", "Encrypt"}, success \in BOOLEAN : OtherCall(op, success)
  \/ Rotate

SpecInstances == Init /\ [][NextInstances]_vars

(***************************************************************************)
(* SpecLock: the locked revision with keyID() and setKeyID() followed lock *)
(* operation by lock operation.  In a call record pc is then also "keyID"  *)
(* (before RLock), "rlocked" (inside keyID), "wlocked" (inside setKeyID).  *)
(***************************************************************************)
InitLock ==
  /\ \E suffix \in Suffixes : NewPlugin("locked", keyName, suffix)
  /\ primary = FirstVersion
  /\ calls = [c \in Calls |-> IdleCall]
  /\ kept = NoneKept
  /\ probes = [h \in Probes |-> IdleProbe]
  /\ proc = NewProc("run", want)

\* Status is entered; its first statement is keyID := g.keyID().
StatusEnter(c) ==
  /\ calls[c].pc = "idle"
  /\ calls' = [calls EXCEPT ![c] =
       [IdleCall EXCEPT !.op = "Status", !.pc = "keyID", !.resource = keyURI]]
  /\ UNCHANGED <<revision, keyURI, keySuffix, lastKeyID, primary, kept, probes, proc>>

\* g.lastKeyIDLock.RLock(): granted while no goroutine holds the write lock.
RLock(c) ==
  /\ calls[c].pc = "keyID"
  /\ \A d \in Calls : calls[d].holds # "w"
  /\ calls' = [calls EXCEPT ![c].holds = "r", ![c].pc = "rlocked"]
  /\ UNCHANGED <<revision, keyURI, keySuffix, lastKeyID, primary, kept, probes, proc>>

\* keyID() returning with the read lock still held.
RUnlockSkipped(c) ==
  /\ calls[c].pc = "rlocked"
  /\ calls' = [calls EXCEPT ![c].respKeyId = keyID, ![c].healthz = ok,
                            ![c].pc = "backend"]
  /\ UNCHANGED <<revision, keyURI, keySuffix, lastKeyID, primary, kept, probes, proc>>

\* return g.lastKeyID with the deferred RUnlock(); Status builds its response
\* and goes on to the backend call.
RUnlock(c) ==
  /\ calls[c].pc = "rlocked"
  /\ calls' = [calls EXCEPT ![c].respKeyId = keyID, ![c].healthz = ok,
                            ![c].holds = "none", ![c].pc = "backend"]
  /\ UNCHANGED <<revision, keyURI, keySuffix, lastKeyID, primary, kept, probes, proc>>

\* setKeyID: g.lastKeyIDLock.Lock(), granted while no goroutine holds the
\* lock in either mode.
Lock(c) ==
  /\ revision = "locked"
  /\ calls[c].pc = "store"
  /\ \A d \in Calls : calls[d].holds = "none"
  /\ calls' = [calls EXCEPT ![c].holds = "w", ![c].pc = "wlocked"]
  /\ UNCHANGED <<revision, keyURI, keySuffix, lastKeyID, primary, kept, probes, proc>>

\* g.lastKeyID = result with the deferred Unlock(); Encrypt returns result,
\* Status the key id it read before the probe.
Unlock(c) ==
  /\ calls[c].pc = "wlocked"
  /\ setKeyID(calls[c].name)
  /\ calls' = [calls EXCEPT ![c].holds = "none", ![c].pc = "done",
                            ![c].respKeyId = IF calls[c].op = "Encrypt"
                                             THEN getKeyId(calls[c].name, keySuffix) ELSE @]
  /\ UNCHANGED <<revision, keyURI, keySuffix, primary, kept, probes, proc>>

NextLock ==
  \/ \E c \in Calls : StatusEnter(c)
  \/ \E c \in Calls : RLock(c)
  \/ \E c \in Calls : RUnlock(c)
  \/ \E c \in Calls : StatusProbeFails(c)
  \/ \E c \in Calls : StatusProbeSucceeds(c)
  \/ \E c \in Calls : EncryptBegin(c, secret)
  \/ \E c \in Calls : EncryptBackendFails(c)
  \/ \E c \in Calls, garbled \in BOOLEAN : EncryptBackendAnswers(c, garbled)
  \/ \E c \in Calls : Lock(c)
  \/ \E c \in Calls : Unlock(c)
  \/ \E c \in Calls : Return(c, FALSE)
  \/ Rotate

SpecLock == InitLock /\ [][NextLock]_vars

(***************************************************************************)
(* SpecExtract: Decrypt calls presenting key ids built from a key name and *)
(* every short tail of separators, version segments and suffixes, and key  *)
(* ids that lack a part of the key name.                                   *)
(***************************************************************************)
TailTokens == {"/", ":", "cryptoKeyVersions", "9", "test"}

Tails == UNION {[1..n -> TailTokens] : n \in 0..MaxTailLen}

VersionParts == {<<>>} \cup {<<"/", "cryptoKeyVersions", "/">> \o Decimal(n) : n \in Versions}

TailedKeyIds == {otherKeyName \o version \o tail : version \in VersionParts, tail \in Tails}

BrokenKeyIds ==
  {SubSeq(otherKeyName, 1, n) : n \in 1..(Len(otherKeyName) - 1)}
    \cup {SubSeq(otherKeyName, n, Len(otherKeyName)) : n \in 2..Len(otherKeyName)}
    \cup {<<"1234567">>}

NextExtract ==
  \/ \E c \in Calls, id \in TailedKeyIds \cup BrokenKeyIds :
       Quiet /\ DecryptBegin(c, oldCiphertext, id)
  \/ \E c \in Calls : DecryptBackendFails(c)
  \/ \E c \in Calls, garbled \in BOOLEAN : DecryptBackendAnswers(c, garbled)
  \/ \E c \in Calls : Return(c, FALSE)

SpecExtract == Init /\ [][NextExtract]_vars

(***************************************************************************)
(* SpecHealthz: healthz requests handled concurrently; every check may     *)
(* pass or fail.  The handler reaches the plugin through its socket only,  *)
(* so one plugin configuration stands for all.                             *)
(***************************************************************************)
InitHealthz ==
  /\ NewPlugin("locked", keyName, <<>>)
  /\ primary = FirstVersion
  /\ calls = [c \in Calls |-> IdleCall]
  /\ kept = NoneKept
  /\ probes = [h \in Probes |-> IdleProbe]
  /\ proc = NewProc("run", want)

NextHealthz ==
  \/ \E h \in Probes, q \in Queries : ProbeArrives(h, q)
  \/ \E h \in Probes, success \in BOOLEAN : ProbeDial(h, success)
  \/ \E h \in Probes, success \in BOOLEAN : ProbePingRPC(h, success)
  \/ \E h \in Probes : ProbeTestIAMFails(h)
  \/ \E h \in Probes, got \in SUBSET Grantable : ProbeTestIAMAnswers(h, got)
  \/ \E h \in Probes, success \in BOOLEAN : ProbePingKMSEncrypt(h, success)
  \/ \E h \in Probes, outcome \in PingOutcomes \ {"encrypt"} : ProbePingKMSDecrypt(h, outcome)
  \/ \E h \in Probes : ProbeDeadline(h)
  \/ \E h \in Probes : ProbeAnswered(h)

SpecHealthz == InitHealthz /\ [][NextHealthz]_vars

(***************************************************************************)
(* Properties of the v2 handlers.                                          *)
(***************************************************************************)
Range(s) == {s[i] : i \in 1..Len(s)}

\* The complete identifiers the tracker can be set to.
TrackedIds == {Tracked(keyURI)} \cup {Tracked(keyVersionName(keyURI, v)) : v \in Versions}

Storing == {"store", "storeData", "storeLen"}

\* C1: a Status call whose probe fails does not change the tracker and
\* returns, with a nil error, Healthz = keyNotReachable and as KeyId the
\* non-empty value it read from the tracker (the locked revision reads it on
\* entry, the others when the probe has failed).
FailedStatusKeepsLastKeyId ==
  [][\A c \in Calls :
       /\ (revision = "locked" /\ calls[c].pc = "idle" /\ calls'[c].op = "Status")
            => calls'[c].respKeyId = StrOf(lastKeyID)
       /\ (calls[c].op = "Status" /\ calls[c].pc = "backend" /\ calls'[c].pc = "done")
            => /\ lastKeyID' = lastKeyID
               /\ ~calls'[c].err
               /\ calls'[c].healthz = keyNotReachable
               /\ calls'[c].respKeyId # <<>>
               /\ calls'[c].respKeyId =
                    IF revision = "locked" THEN calls[c].respKeyId ELSE StrOf(lastKeyID)]_vars

\* A failed Status that reports a version learnt from an earlier call.
FailedStatusAfterUpdate ==
  \E c \in Calls :
    /\ calls[c].op = "Status" /\ calls[c].pc = "done"
    /\ calls[c].healthz = keyNotReachable
    /\ calls[c].respKeyId = Tracked(keyVersionName(keyURI, FirstVersion))
    /\ StrOf(lastKeyID) = calls[c].respKeyId

\* C2: the KeyId of a successful Encrypt response is the version name the
\* backend returned to that very call, decorated with the configured suffix.
EncryptKeyIdIsOwn ==
  \A c \in Calls :
    (calls[c].op = "Encrypt" /\ calls[c].pc = "done" /\ ~calls[c].err)
      => calls[c].respKeyId = Tracked(calls[c].name)

\* C3: when a successful Encrypt or Status has stored its key id, the
\* tracker reads as that call's identifier, and the tracker never holds
\* anything but one complete identifier.
TrackerHoldsCompleteId ==
  [][/\ \A c \in Calls :
          (calls[c].pc \in Storing /\ calls'[c].pc \notin Storing)
            => StrOf(lastKeyID') = Tracked(calls[c].name)
     /\ StrOf(lastKeyID') \in TrackedIds]_vars

\* C4: a Status whose probe succeeds reports "ok" and, as KeyId, the version
\* the probe has just returned (decorated), not the value tracked before.
StatusReportsProbedVersion ==
  \A c \in Calls :
    (calls[c].op = "Status" /\ calls[c].pc = "done" /\ calls[c].name # <<>>)
      => /\ calls[c].healthz = ok
         /\ calls[c].respKeyId = Tracked(calls[c].name)

\* C5: Decrypt of a kept Encrypt result (ciphertext and key id) goes to the
\* key that encrypted it and, when it succeeds, returns the plaintext that
\* was encrypted, whatever rotations and tracker updates happened since.
EncryptDecryptRoundTrip ==
  \A c \in Calls :
    (calls[c].op = "Decrypt" /\ kept.has
       /\ calls[c].ctext = kept.cipher /\ calls[c].keyId = kept.keyId)
      => /\ calls[c].resource = keyURI
         /\ (calls[c].pc = "done" /\ ~calls[c].err) => calls[c].out = kept.plain

\* A round trip completed after the key was rotated and the tracker moved on.
RoundTripAcrossRotation ==
  \E c \in Calls :
    /\ calls[c].op = "Decrypt" /\ calls[c].pc = "done" /\ ~calls[c].err
    /\ kept.has /\ calls[c].ctext = kept.cipher /\ calls[c].keyId = kept.keyId
    /\ kept.plain # <<>>
    /\ kept.cipher[1] % 16 = FirstVersion
    /\ primary > FirstVersion
    /\ StrOf(lastKeyID) # kept.keyId

\* A base key name followed by nothing, a version segment and / or a suffix.
WellFormedTail(rest) ==
  \/ rest = <<>>
  \/ rest[1] = ":"
  \/ /\ Len(rest) >= 4
     /\ rest[1] = "/" /\ rest[2] = "cryptoKeyVersions" /\ rest[3] = "/"
     /\ rest[4] \notin {"/", ":"}
     /\ \A i \in 5..Len(rest) : rest[i] = "/" => \E j \in 5..i : rest[j] = ":"

Extends(id, base) == Len(id) >= Len(base) /\ SubSeq(id, 1, Len(base)) = base

\* C6: for a non-empty key id, Decrypt passes to the backend a name without
\* version segment and without ":" decoration, which for a well-formed
\* identifier is the base key name.
DecryptUsesBaseKeyName ==
  \A c \in Calls :
    (calls[c].op = "Decrypt" /\ calls[c].keyId # <<>>)
      => /\ "cryptoKeyVersions" \notin Range(calls[c].resource)
         /\ ":" \notin Range(calls[c].resource)
         /\ \A base \in HostedKeys :
              (/\ Extends(calls[c].keyId, base)
               /\ WellFormedTail(SubSeq(calls[c].keyId, Len(base) + 1, Len(calls[c].keyId))))
                => calls[c].resource = base

\* C7: a Decrypt with an empty key id goes to the configured key.
EmptyKeyIdUsesConfiguredKey ==
  \A c \in Calls :
    (calls[c].op = "Decrypt" /\ calls[c].keyId = <<>>) => calls[c].resource = keyURI

(***************************************************************************)
(* Properties of the healthz handler.                                      *)
(***************************************************************************)
CheckOrder == <<"dial", "pingRPC", "testIAM", "encrypt", "decrypt">>

Made(h, check) == \E i \in 1..Len(probes[h].log) : probes[h].log[i].check = check

Passed(h, check) ==
  \E i \in 1..Len(probes[h].log) :
    probes[h].log[i].check = check /\ probes[h].log[i].result = "ok"

\* C8: the deep probe (pingKMS Encrypt, then Decrypt) is attempted only for
\* a request with ping-kms=true whose dial, pingRPC and permission check
\* have all passed.
DeepProbeOnlyAfterChecks ==
  \A h \in Probes :
    (probes[h].pc \in {"encrypt", "decrypt"} \/ Made(h, "encrypt") \/ Made(h, "decrypt"))
      => /\ probes[h].query = "true"
         /\ Passed(h, "dial") /\ Passed(h, "pingRPC") /\ Passed(h, "testIAM")

\* One request has run the deep probe while another, which also asked for
\* it, was refused at the permission check.
DeepProbeRunAndRefused ==
  \E g, h \in Probes :
    /\ Passed(g, "encrypt") /\ Made(g, "decrypt")
    /\ probes[h].query = "true" /\ probes[h].pc = "done" /\ probes[h].missing # {}

\* C9: the checks of a request run in the order dial, pingRPC, testIAM,
\* encrypt, decrypt and stop at the first failure; a failed dial or pingRPC
\* answers 503 with no permission check and no deep probe.
ChecksInOrder ==
  \A h \in Probes :
    LET log == probes[h].log
        n == Len(log)
    IN  /\ n <= Len(CheckOrder)
        /\ \A i \in 1..n : log[i].check = CheckOrder[i]
        /\ \A i \in 1..(n - 1) : log[i].result = "ok"
        /\ (n >= 1 /\ log[n].result # "ok") => probes[h].pc = "done"
        /\ (n >= 1 /\ n <= 2 /\ log[n].result # "ok")
             => probes[h].status = StatusServiceUnavailable

\* A request answered 503 at the pingRPC check.
StoppedAtPingRPC ==
  \E h \in Probes :
    /\ probes[h].pc = "done" /\ probes[h].status = StatusServiceUnavailable
    /\ Len(probes[h].log) = 2 /\ probes[h].log[2].result = "error"
    /\ probes[h].query = "true"

\* C10: a request is answered 200 "ok" exactly when every check made for it
\* passed, 403 exactly when required permissions are missing, and 503 on
\* every failed call (transport, backend unreachable, deep probe).
ThreeOutcomes ==
  \A h \in Probes :
    probes[h].pc = "done" =>
      LET log == probes[h].log
          last == log[Len(log)]
      IN  /\ probes[h].status \in {StatusOK, StatusForbidden, StatusServiceUnavailable}
          /\ probes[h].status = StatusOK
               <=> (probes[h].body = "ok" /\ \A i \in 1..Len(log) : log[i].result = "ok")
          /\ probes[h].status = StatusForbidden <=> last.result = "denied"
          /\ last.result = "error" => probes[h].status = StatusServiceUnavailable

\* The checks that wait for an answer of the plugin socket or of the backend.
Waiting == {"pingRPC", "testIAM", "encrypt", "decrypt"}

\* C11: one deadline bounds all checks of a request: once it has expired, a
\* check that is waiting ends the request as a failed call and is never
\* completed by an answer of the backend or of the socket.
DeadlineBoundsAllChecks ==
  [][\A h \in Probes :
       (probes[h].expired /\ probes[h].pc \in Waiting /\ probes'[h] # probes[h])
         => /\ probes'[h].pc = "done"
            /\ probes'[h].log[Len(probes'[h].log)].result = "error"]_vars

\* The result of the permission check of a request, "" before it is made.
IAMResult(h) ==
  IF Len(probes[h].log) >= 3 THEN probes[h].log[3].result ELSE ""

ProbeComparesPlaintext ==
  \A h \in Probes :
    /\ Passed(h, "decrypt") => probes[h].recovered = "secret"
    /\ probes[h].recovered = "other"
         => probes[h].pc = "done" /\ probes[h].status = StatusServiceUnavailable

\* C12: an invocation of Status, Encrypt or Decrypt issues one backend
\* request, never a second one; when that request fails or returns a
\* payload that is not base64, Encrypt and Decrypt return an error and no
\* response.
OneRequestAndErrorsReturned ==
  \A c \in Calls :
    /\ calls[c].requests <= 1
    /\ calls[c].pc \notin {"idle", "backend"} => calls[c].requests = 1
    /\ (calls[c].op \in {"Encrypt", "Decrypt"} /\ calls[c].pc = "done")
         => /\ calls[c].err <=> calls[c].reply \in {"error", "malformed"}
            /\ calls[c].err => (calls[c].out = <<>> /\ calls[c].respKeyId = <<>>)

\* A Decrypt of a kept ciphertext has returned an error because the backend's
\* payload was not base64.
GarbledPayloadRefused ==
  \E c \in Calls :
    /\ calls[c].op = "Decrypt" /\ calls[c].pc = "done"
    /\ kept.has /\ calls[c].ctext = kept.cipher
    /\ calls[c].requests = 1 /\ calls[c].reply = "malformed" /\ calls[c].err

\* C13: when the caller's ctx is done before the backend has answered, an
\* Encrypt or Decrypt call ends there with an error, not with the backend's
\* answer, and the tracker is left as it was.
DoneContextEndsCall ==
  [][\A c \in Calls :
       (/\ calls[c].op \in {"Encrypt", "Decrypt"}
        /\ calls[c].pc = "backend" /\ calls[c].expired
        /\ calls'[c] # calls[c])
         => /\ calls'[c].pc = "done" /\ calls'[c].err
            /\ calls'[c].reply = "error"
            /\ lastKeyID' = lastKeyID]_vars

\* C24: a goroutine that holds lastKeyIDLock, in either mode, has no backend
\* request in flight and issues none; the only step it takes while holding
\* the lock is the one that reads or writes lastKeyID and releases it, and
\* that step waits for nothing.
LockNeverSpansBackendCall ==
  [][\A c \in Calls :
       calls[c].holds # "none" =>
         /\ calls[c].pc \in {"rlocked", "wlocked"}
         /\ ENABLED (RUnlock(c) \/ Unlock(c))
         /\ calls'[c].requests = calls[c].requests
         /\ calls'[c] # calls[c] => calls'[c].holds = "none"]_vars

\* A Status has read the tracker and waits for the backend while another
\* call holds the write lock.
StoreDuringBackendCall ==
  \E c, d \in Calls :
    /\ c # d
    /\ calls[c].holds = "w"
    /\ calls[d].op = "Status" /\ calls[d].pc = "backend" /\ calls[d].holds = "none"
    /\ calls[d].respKeyId # <<>>

\* C26: the tracker is per plugin instance: whatever a second instance of the
\* process does (its construction, its Status and Encrypt calls), every
\* identifier the first instance reports from a Status or a successful
\* Encrypt is an identifier of the first instance's own key.
InstanceTrackerPrivate ==
  \A c \in Calls :
    (/\ calls[c].pc = "done" /\ calls[c].op \in {"Status", "Encrypt"}
     /\ ~calls[c].err)
      => Extends(calls[c].respKeyId, keyURI)

\* C25: when all the calls in flight are Status and Encrypt calls that have
\* succeeded and returned, the tracker reads as the identifier one of them
\* obtained: no mixture of two identifiers, not the empty string, not the
\* value from before them.
LastWriterWins ==
  (\A c \in Calls :
     /\ calls[c].pc = "done" /\ calls[c].op \in {"Status", "Encrypt"}
     /\ ~calls[c].err /\ calls[c].name # <<>>)
    => /\ lastKeyID.len = Len(lastKeyID.data)
       /\ StrOf(lastKeyID) \in {Tracked(calls[c].name) : c \in Calls}

\* C27: the tracker changes only in the store of a Status or Encrypt call
\* whose backend request has succeeded; no step of a Decrypt call and no
\* step that ends an Encrypt call with an error (failed request, ciphertext
\* that is not base64) changes it, and such a call never comes to store.
TrackerWrittenOnlyAfterSuccess ==
  [][/\ lastKeyID' # lastKeyID
          => \E c \in Calls :
               /\ calls[c].pc \in Storing /\ calls'[c] # calls[c]
               /\ calls[c].op \in {"Status", "Encrypt"}
               /\ calls[c].reply = "ok" /\ ~calls[c].err
     /\ \A c \in Calls :
          (calls'[c].op = "Decrypt" \/ calls'[c].err)
            => /\ calls'[c].pc \notin Storing
               /\ calls'[c] # calls[c] => lastKeyID' = lastKeyID]_vars

\* An Encrypt has returned an error for a ciphertext that is not base64,
\* answered by a version newer than the tracked one, and the tracker is
\* still at the older version.
GarbledEncryptKeepsTracker ==
  \E c \in Calls :
    /\ calls[c].op = "Encrypt" /\ calls[c].pc = "done"
    /\ calls[c].err /\ calls[c].reply = "malformed"
    /\ primary = FirstVersion + 1
    /\ StrOf(lastKeyID) = Tracked(keyVersionName(keyURI, FirstVersion))

KeyIdDecoratedWithSuffix ==
  \A c \in Calls :
    (calls[c].op = "Encrypt" /\ calls[c].pc = "done" /\ ~calls[c].err)
      => IF keySuffix # <<>>
         THEN calls[c].respKeyId = calls[c].name \o <<":">> \o keySuffix
         ELSE calls[c].respKeyId = calls[c].name /\ ":" \notin Range(calls[c].respKeyId)

\* C20: for a key name followed by nothing, a version segment and / or a
\* suffix, the name Decrypt extracts is left unchanged by a second
\* extraction, and with keyResourceRegEx it is the base key name; a key id
\* that lacks a part of the key name extracts to the empty string.
ExtractionIdempotent ==
  \A c \in Calls :
    (calls[c].op = "Decrypt" /\ calls[c].keyId # <<>>)
      => LET id == calls[c].keyId
             name == calls[c].resource
         IN  /\ (/\ Extends(id, otherKeyName)
                 /\ WellFormedTail(SubSeq(id, Len(otherKeyName) + 1, Len(id))))
                  => /\ name # <<>>
                     /\ keyResourceName(name) = name
                     /\ revision # "nosuffix" => name = otherKeyName
             /\ id \in BrokenKeyIds => name = <<>>

\* A Decrypt has succeeded with the key name extracted from a key id that
\* carries a two-digit version segment and a suffix.
ExtractedFromVersionAndSuffix ==
  \E c \in Calls :
    /\ calls[c].op = "Decrypt" /\ calls[c].pc = "done" /\ ~calls[c].err
    /\ calls[c].keyId = keyVersionName(otherKeyName, FirstVersion + 1) \o <<":", "test">>
    /\ calls[c].resource = otherKeyName

(***************************************************************************)
(* Properties of the process lifecycle.                                    *)
(***************************************************************************)
\* C14: the protocol listener is created, and calls are accepted, only
\* after the prerequisite validation has passed: the required permissions
\* are granted and the self-test round trip has succeeded.  A process whose
\* validation fails ends without a listener.
ListenerOnlyAfterValidation ==
  /\ proc.listener => (proc.validated /\ want \subseteq proc.granted)
  /\ proc.grpc # "none" => proc.listener
  /\ (proc.how = "fatal" /\ ~proc.validated) => ~proc.listener

\* C15: the health and metrics endpoints serve only once validation, the
\* start of protocol serving and the smoke test over the socket have
\* succeeded, and the health endpoint answers 200 only while the protocol
\* server is serving.
EndpointsAfterStartup ==
  [][/\ (proc'.healthz # "off" \/ proc'.metrics # "off")
          => (proc'.validated /\ proc'.listener /\ proc'.smoke)
     /\ (proc'.lastHealth # proc.lastHealth /\ proc'.lastHealth = StatusOK)
          => proc.grpc = "serving"]_vars

\* C16: in the loop of run an error of the metrics or of the healthz
\* listener is logged and the loop goes on with the protocol server as it
\* was; the loop is left only on a signal or on an error of the protocol
\* serving channel.
ListenerErrorsKeepLoop ==
  [][/\ (proc.metricsErr = "pending" /\ proc'.metricsErr = "taken")
          => /\ proc'.pc = "loop" /\ proc'.grpc = proc.grpc
             /\ "metrics" \in proc'.warnings
     /\ (proc.healthzErr = "pending" /\ proc'.healthzErr = "taken")
          => /\ proc'.pc = "loop" /\ proc'.grpc = proc.grpc
             /\ "healthz" \in proc'.warnings
     /\ (proc.pc = "loop" /\ proc'.pc # "loop")
          => \/ proc.sig /\ proc'.ret = "signal"
             \/ proc.kmsErr /\ proc'.ret = "kmsError"]_vars

\* Both listeners have failed and been logged while the server kept
\* serving, and the loop has then returned on a signal.
SignalAfterBothWarnings ==
  /\ proc.warnings = {"metrics", "healthz"}
  /\ proc.ret = "signal" /\ proc.pc = "deferred" /\ proc.grpc = "serving"

WellFormedKey(uri) == uri # <<>> /\ extractKeyName(uri) = uri

\* C23: a process started with a key-uri that is not a key resource name,
\* or with a socket path whose directory does not exist, never has a
\* protocol listener and never serves, and it ends by a fatal exit.
ConfigErrorsFatal ==
  (proc.entry \in {"run", "main"} /\ (~WellFormedKey(keyURI) \/ ~proc.dirOK))
    => /\ ~proc.listener /\ proc.grpc = "none" /\ proc.created = 0
       /\ proc.pc = "exited" => proc.how \in {"fatal", "exit"}

\* C28: when the set-up of the listener fails in run, there is no server,
\* the error waits in the channel of ServeKMSRequests, the loop returns it
\* and the process exits with it; no process ends in a panic.
SetupErrorEndsRun ==
  /\ proc.how # "panic"
  /\ (proc.entry = "run" /\ ~proc.listener)
       => /\ proc.grpc = "none"
          /\ proc.pc = "loop" => proc.kmsErr
          /\ (proc.pc = "exited" /\ proc.ret = "kmsError") => proc.how = "exit"

\* C30: a process creates at most one listener, closes it at most once, and
\* has closed it when it ends after having created it.
ListenerClosedExactlyOnce ==
  /\ proc.created <= 1
  /\ proc.closes <= proc.created
  /\ (proc.pc = "exited" /\ proc.created = 1) => proc.closes = 1

====
